---- MODULE Spec2Model ----
(***************************************************************************)
(* EnCroissant (ecr_engine): board mutation, pseudo-legal move generation, *)
(* threatened-square census, castling and the clone-based legality probe.  *)
(*                                                                         *)
(* Pieces are heap objects (Rc<RefCell<BoardPiece>>) addressed by an id;   *)
(* the grid and the piece list of a Board hold ids.  Board::clone copies   *)
(* the grid and the list but shares the objects, as #[derive(Clone)] over  *)
(* Rc does.                                                                *)
(***************************************************************************)
EXTENDS Integers, Sequences, FiniteSets, TLC

VARIABLES heap, board, panicked, build, commits, probes, last

vars == <<heap, board, panicked, build, commits, probes, last>>

\* ------------------------------------------------------------------ bounds
MaxCommits == 2
MaxProbeCommits == 1
MaxProbes == 1
MaxReach == 2

\* ------------------------------------------------------------ basic types
Light == "Light"
Dark == "Dark"
Pawn == "Pawn"
Knight == "Knight"
Bishop == "Bishop"
Rook == "Rook"
Queen == "Queen"
King == "King"

U8 == 256

\* Stands for usize::MAX, the value a release build wraps 0 - 1 to.
UsizeMax == -1

Files == 0..7
Squares == Files \X Files

NoCapture == [piece_type |-> "None", target |-> <<8, 8>>]
NoEnPassant == [target_square |-> <<8, 8>>, actual_square |-> <<8, 8>>]

get_opponent(c) == IF c = Light THEN Dark ELSE Light

BoardPiece(t, c, sq) ==
    [type |-> t, color |-> c, coordinate |-> sq, out_of_game |-> FALSE, has_moved |-> FALSE]

\* PartialEq for BoardPiece: has_moved does not take part.
PieceEq(p, q) ==
    /\ p.out_of_game = q.out_of_game
    /\ p.type = q.type
    /\ p.color = q.color
    /\ p.coordinate = q.coordinate

new_move(to) == [to |-> to, capture |-> NoCapture]
new_capture(to, t) == [to |-> to, capture |-> [piece_type |-> t, target |-> to]]

BoardCastleStateDefault ==
    [light_king_side |-> TRUE, light_queen_side |-> TRUE,
     dark_king_side |-> TRUE, dark_queen_side |-> TRUE]

BoardCastleStateEmpty ==
    [light_king_side |-> FALSE, light_queen_side |-> FALSE,
     dark_king_side |-> FALSE, dark_queen_side |-> FALSE]

ZeroThreat == [threatened_light |-> 0, threatened_dark |-> 0]

BoardEmpty ==
    [grid |-> [sq \in Squares |-> 0],
     pieces |-> <<>>,
     to_move |-> Light,
     move_number |-> 1,
     half_move_amount |-> 0,
     castle_state |-> BoardCastleStateDefault,
     en_passant |-> NoEnPassant,
     threatened_state |-> [sq \in Squares |-> ZeroThreat]]

\* ------------------------------------------------------ board primitives
get_at(b, sq) == IF sq \in Squares THEN b.grid[sq] ELSE 0

remove_piece(b, sq) ==
    IF sq \in Squares THEN [b EXCEPT !.grid[sq] = 0] ELSE b

remove_all_threats(b) == [b EXCEPT !.threatened_state = [sq \in Squares |-> ZeroThreat]]

get_threatened_state(b, sq) == b.threatened_state[sq]

\* A world is a heap of piece objects together with one board over it.
World(h, b, ok) == [heap |-> h, b |-> b, ok |-> ok]

add_piece(h, b, piece) ==
    LET id == Len(h) + 1
        sq == piece.coordinate
    IN  World(Append(h, piece),
              [b EXCEPT !.grid = IF sq \in Squares THEN [@ EXCEPT ![sq] = id] ELSE @,
                        !.pieces = Append(@, id)],
              sq \in Squares)

RECURSIVE AddAll(_, _, _, _)
AddAll(h, b, placements, i) ==
    IF i > Len(placements) THEN World(h, b, TRUE)
    ELSE LET p == placements[i]
             w == add_piece(h, b, BoardPiece(p[1], p[2], <<p[3], p[4]>>))
         IN  AddAll(w.heap, w.b, placements, i + 1)

\* ------------------------------------------------- move generation: utils
\* u8 arithmetic of next_row; the release build wraps, the debug build panics
\* (see next_row_overflows).
next_row(y, team_color, step) ==
    IF team_color = Light THEN (y + step) % U8 ELSE (y - step) % U8

next_row_overflows(y, team_color, step) ==
    IF team_color = Light THEN y + step >= U8 ELSE y - step < 0

piece_on_square(h, b, sq) == get_at(b, sq)

piece_in_front(h, b, from, team_color, step) ==
    piece_on_square(h, b, <<from[1], next_row(from[2], team_color, step)>>) # 0

\* A check_square that takes every occupant for an enemy.
check_square_every_occupant_enemy(h, b, sq, team_color) ==
    IF piece_on_square(h, b, sq) = 0
    THEN [occupied |-> FALSE, piece_type |-> "None", enemy |-> FALSE]
    ELSE [occupied |-> TRUE, piece_type |-> h[piece_on_square(h, b, sq)].type, enemy |-> TRUE]

\* check_square: <<occupied, piece type, is enemy>>
check_square(h, b, sq, team_color) ==
    LET on(id) ==
            IF id = 0 THEN [occupied |-> FALSE, piece_type |-> "None", enemy |-> FALSE]
            ELSE [occupied |-> TRUE, piece_type |-> h[id].type,
                  enemy |-> h[id].color # team_color]
    IN  on(piece_on_square(h, b, sq))

distance_to_border(sq) ==
    [up |-> 7 - sq[2], right |-> 7 - sq[1], down |-> sq[2], left |-> sq[1]]

\* no_piece_in_the_way, directions W and E as used by get_castle_moves
no_piece_in_the_way(h, b, start, direction, range) ==
    \A k \in 0..(range - 1) :
        piece_on_square(h, b,
            IF direction = "E" THEN <<start[1] + k, start[2]>>
            ELSE <<start[1] - k, start[2]>>) = 0

\* check_this_move!: the moves pushed, and whether the macro returned from
\* the enclosing function.
check_this_move(h, b, x, y, team_color) ==
    LET on(c) ==
            IF c.occupied
            THEN IF ~c.enemy
                 THEN [moves |-> <<>>, returned |-> TRUE]
                 ELSE [moves |-> <<new_capture(<<x, y>>, c.piece_type)>>, returned |-> TRUE]
            ELSE [moves |-> <<new_move(<<x, y>>)>>, returned |-> FALSE]
    IN  on(check_square(h, b, <<x, y>>, team_color))

\* ------------------------------------------- move generation: generation
DirDelta ==
    [N |-> <<0, 1>>, E |-> <<1, 0>>, S |-> <<0, -1>>, W |-> <<-1, 0>>,
     NW |-> <<-1, 1>>, NE |-> <<1, 1>>, SE |-> <<1, -1>>, SW |-> <<-1, -1>>]

\* explore_direction with check_square_in_loop!: walk until the border, stop
\* on the first occupied square, which is pushed as a capture when it is an
\* enemy.
RECURSIVE explore_direction(_, _, _, _, _, _)
explore_direction(h, b, direction, x, y, team_color) ==
    LET on(nx, ny, c) ==
            IF c.occupied
            THEN IF ~c.enemy THEN <<>>
                 ELSE <<new_capture(<<nx, ny>>, c.piece_type)>>
            ELSE <<new_move(<<nx, ny>>)>>
                 \o explore_direction(h, b, direction, nx, ny, team_color)
        step(nx, ny) ==
            IF <<nx, ny>> \notin Squares THEN <<>>
            ELSE on(nx, ny, check_square(h, b, <<nx, ny>>, team_color))
    IN  step(x + DirDelta[direction][1], y + DirDelta[direction][2])

RECURSIVE ConcatAll(_)
ConcatAll(ss) == IF ss = <<>> THEN <<>> ELSE Head(ss) \o ConcatAll(Tail(ss))

\* The directions are explored in the order of the calls in the source.
explore_directions(h, b, directions, start, team_color) ==
    ConcatAll([i \in 1..Len(directions) |->
                  explore_direction(h, b, directions[i], start[1], start[2], team_color)])

linear_moves(h, b, start, team_color) ==
    explore_directions(h, b, <<"N", "E", "S", "W">>, start, team_color)

diagonal_moves(h, b, start, team_color) ==
    explore_directions(h, b, <<"NW", "NE", "SE", "SW">>, start, team_color)

pawn_capture_diagonal(start, next_r) ==
    IF start[1] = 0 THEN <<(<<start[1] + 1, next_r>>)>>
    ELSE << <<start[1] - 1, next_r>>, <<start[1] + 1, next_r>> >>

pawn_moves(h, b, start, team_color, has_moved) ==
    LET from_x == start[1]
        from_y == start[2]
        forward(next_r) ==
            IF ~piece_in_front(h, b, start, team_color, 1)
            THEN <<new_move(<<from_x, next_r>>)>>
                 \o (IF ~piece_in_front(h, b, start, team_color, 2) /\ ~has_moved
                     THEN <<new_move(<<from_x, next_row(from_y, team_color, 2)>>)>>
                     ELSE <<>>)
            ELSE <<>>
        capture_on(pc, id) ==
            (IF id # 0 /\ h[id].color # team_color
             THEN <<new_capture(pc, h[id].type)>> ELSE <<>>)
            \o (IF b.en_passant # NoEnPassant /\ pc = b.en_passant.target_square
                THEN <<[to |-> pc, capture |-> [piece_type |-> Pawn, target |-> <<6, 1>>]]>>
                ELSE <<>>)
        captures(diag) ==
            ConcatAll([i \in 1..Len(diag) |->
                          capture_on(diag[i], piece_on_square(h, b, diag[i]))])
        moves(next_r) == forward(next_r) \o captures(pawn_capture_diagonal(start, next_r))
    IN  moves(next_row(from_y, team_color, 1))

\* The u8 subtractions that pawn_moves evaluates and that underflow.
pawn_moves_overflows(h, b, start, team_color) ==
    \/ next_row_overflows(start[2], team_color, 1)
    \/ /\ ~piece_in_front(h, b, start, team_color, 1)
       /\ next_row_overflows(start[2], team_color, 2)

\* The coordinates pawn_moves builds or looks up, in the order of the code:
\* the square ahead, the square two ahead (evaluated when the first is free)
\* and the capture diagonals.
pawn_moves_coordinates(h, b, start, team_color) ==
    LET built(next_r) ==
            << <<start[1], next_r>> >>
            \o (IF ~piece_in_front(h, b, start, team_color, 1)
                THEN << <<start[1], next_row(start[2], team_color, 2)>> >> ELSE <<>>)
            \o pawn_capture_diagonal(start, next_r)
    IN  built(next_row(start[2], team_color, 1))

\* A knight_queue that asks for one square of room where two are needed.
knight_queue_one_square_of_room(d) ==
        (IF d.right > 0
         THEN (IF d.down > 0 THEN <<"ES">> ELSE <<>>) \o (IF d.up > 0 THEN <<"EN">> ELSE <<>>)
         ELSE <<>>)
        \o (IF d.up > 0
            THEN (IF d.right > 0 THEN <<"NE">> ELSE <<>>) \o (IF d.left > 0 THEN <<"NW">> ELSE <<>>)
            ELSE <<>>)
        \o (IF d.left > 0
            THEN (IF d.up > 0 THEN <<"WN">> ELSE <<>>) \o (IF d.down > 0 THEN <<"WS">> ELSE <<>>)
            ELSE <<>>)
        \o (IF d.down > 0
            THEN (IF d.left > 0 THEN <<"SW">> ELSE <<>>) \o (IF d.right > 0 THEN <<"SE">> ELSE <<>>)
            ELSE <<>>)

knight_queue(d) ==
        (IF d.right > 1
         THEN (IF d.down > 0 THEN <<"ES">> ELSE <<>>) \o (IF d.up > 0 THEN <<"EN">> ELSE <<>>)
         ELSE <<>>)
        \o (IF d.up > 1
            THEN (IF d.right > 0 THEN <<"NE">> ELSE <<>>) \o (IF d.left > 0 THEN <<"NW">> ELSE <<>>)
            ELSE <<>>)
        \o (IF d.left > 1
            THEN (IF d.up > 0 THEN <<"WN">> ELSE <<>>) \o (IF d.down > 0 THEN <<"WS">> ELSE <<>>)
            ELSE <<>>)
        \o (IF d.down > 1
            THEN (IF d.left > 0 THEN <<"SW">> ELSE <<>>) \o (IF d.right > 0 THEN <<"SE">> ELSE <<>>)
            ELSE <<>>)

KnightDelta ==
    [WN |-> <<-2, 1>>, EN |-> <<2, 1>>, ES |-> <<2, -1>>, WS |-> <<-2, -1>>,
     NW |-> <<-1, 2>>, NE |-> <<1, 2>>, SE |-> <<1, -2>>, SW |-> <<-1, -2>>]

explore_knight_moves(h, b, start, team_color, direction) ==
    check_this_move(h, b, start[1] + KnightDelta[direction][1],
                    start[2] + KnightDelta[direction][2], team_color).moves

knight_moves(h, b, start, team_color) ==
    LET explore(queue) ==
            ConcatAll([i \in 1..Len(queue) |->
                          explore_knight_moves(h, b, start, team_color, queue[i])])
    IN  explore(knight_queue(distance_to_border(start)))

\* BasicMove::get_is_threatened
get_is_threatened(b, mv, team) ==
    IF team = Light THEN get_threatened_state(b, mv.to).threatened_dark > 0
    ELSE get_threatened_state(b, mv.to).threatened_light > 0

king_queue(d) ==
        (IF d.right > 0 THEN <<"E">> \o (IF d.up > 0 THEN <<"NE">> ELSE <<>>) ELSE <<>>)
        \o (IF d.up > 0 THEN <<"N">> \o (IF d.left > 0 THEN <<"NW">> ELSE <<>>) ELSE <<>>)
        \o (IF d.left > 0 THEN <<"W">> \o (IF d.down > 0 THEN <<"SW">> ELSE <<>>) ELSE <<>>)
        \o (IF d.down > 0 THEN <<"S">> \o (IF d.right > 0 THEN <<"SE">> ELSE <<>>) ELSE <<>>)

\* explore_king_moves: the retain on the threatened grid is reached only when
\* check_this_move! did not return, i.e. for a quiet move.
explore_king_moves(h, b, start, team_color, direction) ==
    LET NotThreatened(mv) == ~get_is_threatened(b, mv, team_color)
        retain(r) == IF r.returned THEN r.moves ELSE SelectSeq(r.moves, NotThreatened)
    IN  retain(check_this_move(h, b, start[1] + DirDelta[direction][1],
                               start[2] + DirDelta[direction][2], team_color))

king_moves(h, b, start, team_color) ==
    LET explore(queue) ==
            ConcatAll([i \in 1..Len(queue) |->
                          explore_king_moves(h, b, start, team_color, queue[i])])
    IN  explore(king_queue(distance_to_border(start)))

\* Piece::get_pseudo_legal_moves, dispatched on the piece type.
piece_pseudo_legal_moves(h, b, t, start, team_color, has_moved) ==
    CASE t = Pawn -> pawn_moves(h, b, start, team_color, has_moved)
      [] t = Knight -> knight_moves(h, b, start, team_color)
      [] t = Bishop -> diagonal_moves(h, b, start, team_color)
      [] t = Rook -> linear_moves(h, b, start, team_color)
      [] t = Queen -> linear_moves(h, b, start, team_color)
                      \o diagonal_moves(h, b, start, team_color)
      [] t = King -> king_moves(h, b, start, team_color)

get_castle_moves(h, b, castle_state, team) ==
    IF team = Light
    THEN (IF /\ castle_state.light_queen_side
             /\ no_piece_in_the_way(h, b, <<3, 0>>, "W", 3)
             /\ get_threatened_state(b, <<3, 0>>).threatened_dark = 0
             /\ get_threatened_state(b, <<2, 0>>).threatened_dark = 0
          THEN <<"LightQueenSide">> ELSE <<>>)
         \o (IF /\ castle_state.light_king_side
                /\ no_piece_in_the_way(h, b, <<5, 0>>, "E", 2)
                /\ get_threatened_state(b, <<5, 0>>).threatened_dark = 0
                /\ get_threatened_state(b, <<6, 0>>).threatened_dark = 0
             THEN <<"LightKingSide">> ELSE <<>>)
    ELSE (IF /\ castle_state.dark_queen_side
             /\ no_piece_in_the_way(h, b, <<3, 7>>, "W", 3)
             /\ get_threatened_state(b, <<3, 7>>).threatened_light = 0
             /\ get_threatened_state(b, <<4, 7>>).threatened_light = 0
          THEN <<"DarkQueenSide">> ELSE <<>>)
         \o (IF /\ castle_state.dark_king_side
                /\ no_piece_in_the_way(h, b, <<5, 7>>, "E", 2)
                /\ get_threatened_state(b, <<5, 7>>).threatened_light = 0
                /\ get_threatened_state(b, <<6, 7>>).threatened_light = 0
             THEN <<"DarkKingSide">> ELSE <<>>)

\* --------------------------------------------------- movement: move lists
get_all_pieces(h, b, target_color) ==
    LET OfColor(id) == h[id].color = target_color
    IN  SelectSeq(b.pieces, OfColor)

\* A get_moves that also keeps the entries of pieces that cannot move.
get_moves_keeps_empty_entries(h, b, ids) ==
    [i \in 1..Len(ids) |->
        [from |-> h[ids[i]].coordinate,
         basic_move |-> piece_pseudo_legal_moves(h, b, h[ids[i]].type, h[ids[i]].coordinate,
                                                 h[ids[i]].color, h[ids[i]].has_moved)]]

\* get_moves: one Moves entry per piece of the list that can move, generated
\* from the coordinate, colour and has_moved flag stored in the piece object.
get_moves(h, b, ids) ==
    LET CanMove(m) == m.basic_move # <<>>
    IN  SelectSeq([i \in 1..Len(ids) |->
                      [from |-> h[ids[i]].coordinate,
                       basic_move |-> piece_pseudo_legal_moves(h, b, h[ids[i]].type,
                                          h[ids[i]].coordinate, h[ids[i]].color,
                                          h[ids[i]].has_moved)]],
                  CanMove)

\* A debug build panics on the u8 underflow of next_row while generating.
get_moves_panics(h, b, ids) ==
    /\ build = "debug"
    /\ \E i \in 1..Len(ids) :
          /\ h[ids[i]].type = Pawn
          /\ pawn_moves_overflows(h, b, h[ids[i]].coordinate, h[ids[i]].color)

get_pseudo_legal_moves_util(h, b, team_color) ==
    get_moves(h, b, get_all_pieces(h, b, team_color))

get_pseudo_legal_moves(h, b) == get_pseudo_legal_moves_util(h, b, b.to_move)

get_all_pseudo_legal_moves(h, b) ==
    ConcatAll([i \in 1..2 |-> get_pseudo_legal_moves_util(h, b, <<Light, Dark>>[i])])

\* The (from, move) pairs of a list of Moves, in iteration order.
FlatMoves(ms) ==
    LET pairs(m) == [j \in 1..Len(m.basic_move) |-> [from |-> m.from, mv |-> m.basic_move[j]]]
    IN  ConcatAll([i \in 1..Len(ms) |-> pairs(ms[i])])

\* ------------------------------------------------ threatened-state engine
add_threat(t, team_color) ==
    IF team_color = Light
    THEN [t EXCEPT !.threatened_light = @ + 1]
    ELSE [t EXCEPT !.threatened_dark = @ + 1]

\* calculate_team_threatened_state: the move lists are generated first, on the
\* grid as it stands when the team's turn comes, then every destination is
\* counted.
RECURSIVE add_threats(_, _, _, _)
add_threats(b, flat, team_color, i) ==
    IF i > Len(flat) THEN World(<<>>, b, TRUE)
    ELSE IF flat[i].mv.to \notin Squares THEN World(<<>>, b, FALSE)
    ELSE add_threats([b EXCEPT !.threatened_state[flat[i].mv.to] = add_threat(@, team_color)],
                     flat, team_color, i + 1)

calculate_team_threatened_state(h, b, team_color) ==
    IF get_moves_panics(h, b, get_all_pieces(h, b, team_color)) THEN World(h, b, FALSE)
    ELSE LET counted(w) == World(h, w.b, w.ok)
         IN  counted(add_threats(b, FlatMoves(get_pseudo_legal_moves_util(h, b, team_color)),
                                 team_color, 1))

\* calculate_threatened_states: Light first, then Dark on the grid Light has
\* already written.
RECURSIVE calculate_teams_threatened_state(_, _, _, _)
calculate_teams_threatened_state(h, b, teams, i) ==
    IF i > Len(teams) THEN World(h, b, TRUE)
    ELSE LET next(w) == IF w.ok THEN calculate_teams_threatened_state(h, w.b, teams, i + 1)
                        ELSE w
         IN  next(calculate_team_threatened_state(h, b, teams[i]))

calculate_threatened_states(h, b) ==
    calculate_teams_threatened_state(h, b, <<Light, Dark>>, 1)

\* The reads of the threatened grid made while it is recomputed: generating
\* a king's moves runs explore_king_moves, whose retain calls
\* get_is_threatened on the move check_this_move! pushed without returning.
\* The grid is in its reset state during Light's pass and holds Light's
\* counts only during Dark's.
explore_king_moves_reads(h, b, start, team_color, direction, phase) ==
    LET read(r) ==
            IF r.returned THEN <<>>
            ELSE [i \in 1..Len(r.moves) |->
                     [phase |-> phase, team |-> team_color, square |-> r.moves[i].to]]
    IN  read(check_this_move(h, b, start[1] + DirDelta[direction][1],
                             start[2] + DirDelta[direction][2], team_color))

king_moves_reads(h, b, start, team_color, phase) ==
    LET explore(queue) ==
            ConcatAll([i \in 1..Len(queue) |->
                          explore_king_moves_reads(h, b, start, team_color, queue[i], phase)])
    IN  explore(king_queue(distance_to_border(start)))

calculate_team_threatened_state_reads(h, b, team_color, phase) ==
    LET of(ids) ==
            ConcatAll([i \in 1..Len(ids) |->
                          IF h[ids[i]].type = King
                          THEN king_moves_reads(h, b, h[ids[i]].coordinate, team_color, phase)
                          ELSE <<>>])
    IN  of(get_all_pieces(h, b, team_color))

\* The occupancy is the same throughout the recompute, so the reads are those
\* made on the board the commit leaves.
calculate_threatened_states_reads(h, b) ==
    ConcatAll([i \in 1..2 |->
                  calculate_team_threatened_state_reads(h, b, <<Light, Dark>>[i],
                                                        <<"reset", "partial">>[i])])

\* ------------------------------------------------------ movement: commit
is_pawn_promotion(target) == target[2] = 7 \/ target[2] = 0

check_en_passant(b, target) ==
    b.en_passant # NoEnPassant /\ b.en_passant.target_square = target

\* MoveProperties::get_properties
get_properties(h, b, basic_move, start) ==
    LET of(inner, piece_type) ==
            [inner |-> inner,
             piece_type |-> piece_type,
             target_square |-> basic_move.to,
             capture |-> basic_move.capture,
             en_passant |-> piece_type = Pawn /\ check_en_passant(b, basic_move.to),
             promotion |-> piece_type = Pawn /\ is_pawn_promotion(basic_move.to)]
    IN  of(get_at(b, start), h[get_at(b, start)].type)

\* pieces.retain(|piece| piece != inner): comparison by value (PieceEq).
retain_not_equal(h, b, inner) ==
    LET Differs(id) == ~PieceEq(h[id], h[inner])
    IN  [b EXCEPT !.pieces = SelectSeq(@, Differs)]

\* A pre_move that leaves the moving piece in the piece list.
pre_move_leaves_the_list(h, b, start, inner) ==
    remove_piece(remove_all_threats(b), start)

\* A pre_move that forgets the en-passant target.
pre_move_forgets_en_passant(h, b, start, inner) ==
    retain_not_equal(h, remove_piece(remove_all_threats([b EXCEPT !.en_passant = NoEnPassant]),
                                     start), inner)

pre_move(h, b, start, inner) ==
    retain_not_equal(h, remove_piece(remove_all_threats(b), start), inner)

\* capture_piece(target, target_square): the object handed in is marked out of
\* game and compared against the list; the grid cell target_square is cleared.
capture_piece(h, b, target, target_square) ==
    LET retained(h1) ==
            World(h1, remove_piece(retain_not_equal(h1, b, target), target_square), TRUE)
    IN  retained([h EXCEPT ![target].out_of_game = TRUE])

count_half_moves(b, piece_type, capture) ==
    [b EXCEPT !.half_move_amount =
        IF capture \/ piece_type = Pawn THEN 0 ELSE (@ + 1) % U8]

count_half_moves_overflows(b, piece_type) ==
    piece_type # Pawn /\ b.half_move_amount + 1 >= U8

\* An increase_move_number that counts the moves of both teams.
increase_move_number_every_move(b, color) ==
    [b EXCEPT !.move_number = IF @ = UsizeMax THEN 0 ELSE @ + 1]

\* do_blunder's step on move_number: plus one when the piece added is Dark.
increase_move_number(b, color) ==
    [b EXCEPT !.move_number =
        IF color = Dark THEN (IF @ = UsizeMax THEN 0 ELSE @ + 1) ELSE @]

increase_move_number_overflows(b, color) ==
    color = Dark /\ b.move_number = UsizeMax

\* A piece_to_add that promotes to a rook.
piece_to_add_promotes_to_rook(cloned, promotion, target_square) ==
    [(IF promotion THEN BoardPiece(Rook, cloned.color, target_square)
      ELSE cloned) EXCEPT !.has_moved = TRUE]

\* The piece do_blunder puts on the target square: the moved piece, or a new
\* queen of its colour when the move is a promotion; has_moved is set on it.
piece_to_add(cloned, promotion, target_square) ==
    [(IF promotion THEN BoardPiece(Queen, cloned.color, target_square)
      ELSE cloned) EXCEPT !.has_moved = TRUE]

do_blunder_mut(h, b, start, basic_move) ==
    LET threats(h3, b6, ok) ==
            IF ok THEN calculate_threatened_states(h3, b6) ELSE World(h3, b6, FALSE)
        counted(w3, b4, mp) ==
            threats(w3.heap,
                    [count_half_moves(b4, mp.piece_type, mp.capture # NoCapture)
                        EXCEPT !.to_move = get_opponent(@)],
                    /\ w3.ok
                    /\ ~(build = "debug" /\ count_half_moves_overflows(b4, mp.piece_type)))
        added(w3, mp, color) ==
            counted([w3 EXCEPT !.ok = @ /\ ~(build = "debug"
                                             /\ increase_move_number_overflows(w3.b, color))],
                    increase_move_number(w3.b, color), mp)
        captured(h1, b1, mp) ==
            IF mp.capture # NoCapture
            THEN capture_piece(h1, b1, mp.inner,
                     IF mp.en_passant THEN b.en_passant.actual_square
                     ELSE mp.capture.target)
            ELSE World(h1, b1, TRUE)
        placed(w2, mp, piece) == added(add_piece(w2.heap, w2.b, piece), mp, piece.color)
        moved(h1, b1, mp) ==
            placed(captured(h1, b1, mp), mp,
                   piece_to_add(h1[mp.inner], mp.promotion, mp.target_square))
        with(mp) ==
            moved([h EXCEPT ![mp.inner].coordinate = mp.target_square],
                  pre_move(h, b, start, mp.inner), mp)
    IN  with(get_properties(h, b, basic_move, start))

\* do_blunder: Board::get_at(start).unwrap() panics on an empty origin.
do_blunder(h, b, start, basic_move) ==
    IF get_at(b, start) = 0 THEN World(h, b, FALSE)
    ELSE do_blunder_mut(h, b, start, basic_move)

do_blunder_reads(h, b, start, basic_move) ==
    LET of(w) == IF w.ok THEN calculate_threatened_states_reads(w.heap, w.b) ELSE <<>>
    IN  of(do_blunder(h, b, start, basic_move))

\* ------------------------------------------------------ movement: castle
CastleVariants == {"LightKingSide", "LightQueenSide", "DarkKingSide", "DarkQueenSide"}

castle_king_from(v) == IF v \in {"LightKingSide", "LightQueenSide"} THEN <<4, 0>> ELSE <<4, 7>>

castle_king_to(v) ==
    CASE v = "LightKingSide" -> <<6, 0>>
      [] v = "LightQueenSide" -> <<2, 0>>
      [] v = "DarkKingSide" -> <<6, 7>>
      [] v = "DarkQueenSide" -> <<2, 7>>

castle_rook_from(v) ==
    CASE v = "LightKingSide" -> <<7, 0>>
      [] v = "LightQueenSide" -> <<0, 0>>
      [] v = "DarkKingSide" -> <<7, 7>>
      [] v = "DarkQueenSide" -> <<0, 7>>

castle_rook_to(v) ==
    CASE v = "LightKingSide" -> <<4, 0>>
      [] v = "LightQueenSide" -> <<0, 3>>
      [] v = "DarkKingSide" -> <<5, 7>>
      [] v = "DarkQueenSide" -> <<3, 0>>

\* castle: the king's commit, the rook's commit, then both counters are
\* decremented (u8 / usize) and the castle state is replaced.
RECURSIVE do_blunders(_, _, _, _)
do_blunders(h, b, steps, i) ==
    IF i > Len(steps) THEN World(h, b, TRUE)
    ELSE LET next(w) == IF w.ok THEN do_blunders(w.heap, w.b, steps, i + 1) ELSE w
         IN  next(do_blunder(h, b, steps[i].from, steps[i].mv))

castle(h, b, v) ==
    LET done(r) ==
            IF ~r.ok THEN r
            ELSE World(r.heap,
                       [r.b EXCEPT !.half_move_amount = (@ - 1) % U8,
                                   !.move_number = IF @ = 0 THEN UsizeMax ELSE @ - 1,
                                   !.castle_state = BoardCastleStateEmpty],
                       ~(build = "debug"
                         /\ (r.b.half_move_amount = 0 \/ r.b.move_number = 0)))
    IN  done(do_blunders(h, b,
                         << [from |-> castle_king_from(v), mv |-> new_move(castle_king_to(v))],
                            [from |-> castle_rook_from(v), mv |-> new_move(castle_rook_to(v))] >>,
                         1))

castle_reads(h, b, v) ==
    LET second(w, reads) ==
            IF w.ok
            THEN reads \o do_blunder_reads(w.heap, w.b, castle_rook_from(v),
                                           new_move(castle_rook_to(v)))
            ELSE reads
        first(w) == second(w, IF w.ok THEN calculate_threatened_states_reads(w.heap, w.b)
                              ELSE <<>>)
    IN  first(do_blunder(h, b, castle_king_from(v), new_move(castle_king_to(v))))

\* ------------------------------------------------- move.rs: check probes
\* The objects a board shares with its clones: a clone's new pieces are
\* dropped with it, the mutations of shared objects stay.
Shared(h, n) == SubSeq(h, 1, n)

Probe(h, result, ok) == [heap |-> h, result |-> result, ok |-> ok]

contains_king(moves) ==
    \E i \in 1..Len(moves) :
        moves[i].capture # NoCapture /\ moves[i].capture.piece_type = King

\* move_on_cloned_board: the clone shares the piece objects, so the commit
\* runs on the same heap.
move_on_cloned_board(h, b, start, basic_move) == do_blunder(h, b, start, basic_move)

\* Moves::contains_check: every move is committed on a clone of `board`; the
\* moves of the moved piece are then generated from its destination on `board`
\* itself.
RECURSIVE contains_check_from(_, _, _, _, _)
contains_check_from(h, b, from, mvs, i) ==
    IF i > Len(mvs) THEN Probe(h, FALSE, TRUE)
    ELSE LET generated(hs, piece) ==
                 IF build = "debug" /\ piece.type = Pawn
                    /\ pawn_moves_overflows(hs, b, mvs[i].to, piece.color)
                 THEN Probe(hs, FALSE, FALSE)
                 ELSE IF contains_king(piece_pseudo_legal_moves(hs, b, piece.type, mvs[i].to,
                                                                piece.color, TRUE))
                 THEN Probe(hs, TRUE, TRUE)
                 ELSE contains_check_from(hs, b, from, mvs, i + 1)
             inner(w, hs, id) ==
                 IF ~w.ok \/ id = 0 THEN Probe(hs, FALSE, FALSE)
                 ELSE generated(hs, w.heap[id])
             future(w) == inner(w, Shared(w.heap, Len(h)), get_at(w.b, mvs[i].to))
         IN  future(move_on_cloned_board(h, b, from, mvs[i]))

contains_check(h, b, moves) == contains_check_from(h, b, moves.from, moves.basic_move, 1)

RECURSIVE check_checker_from(_, _, _, _)
check_checker_from(h, b, all_moves, k) ==
    IF k > Len(all_moves) THEN Probe(h, FALSE, TRUE)
    ELSE LET next(c) == IF ~c.ok \/ c.result THEN c
                        ELSE check_checker_from(c.heap, b, all_moves, k + 1)
         IN  next(contains_check(h, b, all_moves[k]))

check_checker(h, b, team) ==
    IF get_moves_panics(h, b, get_all_pieces(h, b, team)) THEN Probe(h, FALSE, FALSE)
    ELSE check_checker_from(h, b, get_pseudo_legal_moves_util(h, b, team), 1)

\* check_if_legal_move: commit on a clone, then ask whether the side now to
\* move gives check.
check_if_legal_move(h, b, start, basic_move) ==
    LET checked(c) == Probe(Shared(c.heap, Len(h)), ~c.result, c.ok)
        future(w) ==
            IF ~w.ok THEN Probe(Shared(w.heap, Len(h)), FALSE, FALSE)
            ELSE checked(check_checker(w.heap, w.b, w.b.to_move))
    IN  future(move_on_cloned_board(h, b, start, basic_move))

\* Moves::remove_illegal_moves: from the last move to the first.
RECURSIVE remove_illegal_moves_from(_, _, _, _, _)
remove_illegal_moves_from(h, b, from, mvs, i) ==
    IF i = 0 THEN [heap |-> h, basic_move |-> mvs, ok |-> TRUE]
    ELSE LET next(c) ==
                 IF ~c.ok THEN [heap |-> c.heap, basic_move |-> mvs, ok |-> FALSE]
                 ELSE remove_illegal_moves_from(c.heap, b, from,
                          IF c.result THEN mvs
                          ELSE SubSeq(mvs, 1, i - 1) \o SubSeq(mvs, i + 1, Len(mvs)),
                          i - 1)
         IN  next(check_if_legal_move(h, b, from, mvs[i]))

remove_illegal_moves(h, b, moves) ==
    remove_illegal_moves_from(h, b, moves.from, moves.basic_move, Len(moves.basic_move))

\* ------------------------------------------------------------ FEN notation
\* From<Board> for Fen: one placement per entry of the piece list, in list
\* order, and the five other fields.
FenFromBoard(h, b) ==
    [piece_placements |->
         [i \in 1..Len(b.pieces) |->
             <<h[b.pieces[i]].type, h[b.pieces[i]].color,
               h[b.pieces[i]].coordinate[1], h[b.pieces[i]].coordinate[2]>>],
     to_move |-> b.to_move,
     castles |-> b.castle_state,
     en_passant |-> b.en_passant.target_square,
     half_moves |-> b.half_move_amount,
     move_number |-> b.move_number]

\* Display for FenPiecePlacements. The stable sort keeps the list order of
\* placements on one square, so the array cell holds the last of them.
pieces_array(placements) ==
    [sq \in Squares |->
        LET On == {i \in 1..Len(placements) : <<placements[i][3], placements[i][4]>> = sq}
        IN  IF On = {} THEN 0 ELSE CHOOSE i \in On : \A j \in On : j <= i]

\* The characters of the text: a digit for a run of empty squares, or a
\* piece code (the letter of the type, upper case for Light).
EmptyRun(n) == [digit |-> n, type |-> "None", color |-> "None"]

PieceCode(t, c) == [digit |-> 0, type |-> t, color |-> c]

RECURSIVE row_to_string(_, _, _, _, _)
row_to_string(placements, array, y, x, last_x) ==
    IF x > 7 THEN (IF last_x < 7 THEN <<EmptyRun(7 - last_x)>> ELSE <<>>)
    ELSE IF array[<<x, y>>] = 0 THEN row_to_string(placements, array, y, x + 1, last_x)
    ELSE (IF x - last_x > 1 THEN <<EmptyRun(x - last_x - 1)>> ELSE <<>>)
            \o <<PieceCode(placements[array[<<x, y>>]][1], placements[array[<<x, y>>]][2])>>
            \o row_to_string(placements, array, y, x + 1, x)

\* The rows of the text, the eighth rank first.
placements_to_string(placements) ==
    [i \in 1..8 |-> row_to_string(placements, pieces_array(placements), 8 - i, 0, -1)]

\* FromStr for FenPiecePlacements: a number skips that many files, a piece
\* code is resolved on the current file.
RECURSIVE row_from_str(_, _, _, _)
row_from_str(row, y, k, x) ==
    IF k > Len(row) THEN <<>>
    ELSE IF row[k].digit > 0 THEN row_from_str(row, y, k + 1, x + row[k].digit)
    ELSE << <<row[k].type, row[k].color, x, y>> >> \o row_from_str(row, y, k + 1, x + 1)

placements_from_str(rows) ==
    ConcatAll([i \in 1..8 |-> row_from_str(rows[i], 8 - i, 1, 0)])

RECURSIVE to_decimal(_)
to_decimal(n) == IF n < 10 THEN <<n>> ELSE Append(to_decimal(n \div 10), n % 10)

RECURSIVE parse_decimal(_)
parse_decimal(digits) ==
    IF Len(digits) = 1 THEN digits[1]
    ELSE 10 * parse_decimal(SubSeq(digits, 1, Len(digits) - 1)) + digits[Len(digits)]

\* Display for Fen: the six groups of the text.
fen_to_string(f) ==
    [piece_placements |-> placements_to_string(f.piece_placements),
     to_move |-> IF f.to_move = Light THEN "w" ELSE "b",
     castles |-> IF \/ f.castles.light_king_side \/ f.castles.light_queen_side
                    \/ f.castles.dark_king_side \/ f.castles.dark_queen_side
                 THEN (IF f.castles.light_king_side THEN <<"K">> ELSE <<>>)
                         \o (IF f.castles.light_queen_side THEN <<"Q">> ELSE <<>>)
                         \o (IF f.castles.dark_king_side THEN <<"k">> ELSE <<>>)
                         \o (IF f.castles.dark_queen_side THEN <<"q">> ELSE <<>>)
                 ELSE <<"-">>,
     en_passant |-> IF f.en_passant = <<8, 8>> THEN [dash |-> TRUE, file |-> 0, rank |-> 0]
                    ELSE [dash |-> FALSE, file |-> f.en_passant[1],
                          rank |-> f.en_passant[2] + 1],
     half_moves |-> to_decimal(f.half_moves),
     move_number |-> to_decimal(f.move_number)]

\* FEN_REGEX accepts an en-passant group of "-" or a file and the rank 3 or 6.
fen_regex_matches(text) ==
    text.en_passant.dash \/ text.en_passant.rank \in {3, 6}

\* FromStr for Fen, for a text the regex accepts.
fen_from_str(text) ==
    LET Has(c) == \E i \in 1..Len(text.castles) : text.castles[i] = c
    IN  [piece_placements |-> placements_from_str(text.piece_placements),
         to_move |-> IF text.to_move = "w" THEN Light ELSE Dark,
         castles |-> [light_king_side |-> Has("K"), light_queen_side |-> Has("Q"),
                      dark_king_side |-> Has("k"), dark_queen_side |-> Has("q")],
         en_passant |-> IF text.en_passant.dash THEN <<8, 8>>
                        ELSE <<text.en_passant.file, text.en_passant.rank - 1>>,
         half_moves |-> parse_decimal(text.half_moves),
         move_number |-> parse_decimal(text.move_number)]

\* -------------------------------------------------------------- evaluation
get_value(t) ==
    CASE t = Pawn -> 10
      [] t = Knight -> 30
      [] t = Bishop -> 35
      [] t = Rook -> 50
      [] t = Queen -> 90
      [] t = King -> 20

\* get_team_pieces: the entries of the piece list with the team's colour.
get_team_pieces(h, b, team_color) ==
    LET OfTeam(id) == h[id].color = team_color
    IN  SelectSeq(b.pieces, OfTeam)

RECURSIVE eval_pieces(_, _)
eval_pieces(h, pieces) ==
    IF pieces = <<>> THEN 0
    ELSE get_value(h[Head(pieces)].type) + eval_pieces(h, Tail(pieces))

evaluate_pieces(h, b) ==
    eval_pieces(h, get_team_pieces(h, b, Light)) - eval_pieces(h, get_team_pieces(h, b, Dark))

get_middle_squares == << <<3, 3>>, <<3, 4>>, <<4, 3>>, <<4, 4>> >>

get_all_squares == [i \in 1..64 |-> <<(i - 1) \div 8, (i - 1) % 8>>]

get_threatened_states(b, coords) ==
    [i \in 1..Len(coords) |-> get_threatened_state(b, coords[i])]

get_by_team(state, team) ==
    IF team = Light THEN state.threatened_light ELSE state.threatened_dark

RECURSIVE get_threatened_score(_, _)
get_threatened_score(states, team) ==
    IF states = <<>> THEN 0
    ELSE get_by_team(Head(states), team) + get_threatened_score(Tail(states), team)

middle_squares_score(b) ==
    get_threatened_score(get_threatened_states(b, get_middle_squares), Light)
        - get_threatened_score(get_threatened_states(b, get_middle_squares), Dark)

all_squares_score(b) ==
    get_threatened_score(get_threatened_states(b, get_all_squares), Light)
        - get_threatened_score(get_threatened_states(b, get_all_squares), Dark)

position_value(b) == middle_squares_score(b) + all_squares_score(b)

eval(h, b) == evaluate_pieces(h, b) + position_value(b)

\* Board::eval_board: the two sums are usize and so is their difference. When
\* Dark's sum is the larger one a debug build panics and a release build
\* wraps: the result is then 2^64 minus `below`, a large positive float.
eval_board_sums(value_light, value_dark) ==
    IF value_light >= value_dark
    THEN [ok |-> TRUE, wrapped |-> FALSE, value |-> value_light - value_dark, below |-> 0]
    ELSE [ok |-> build # "debug", wrapped |-> TRUE, value |-> 0,
          below |-> value_dark - value_light]

eval_board(h, b) ==
    eval_board_sums(eval_pieces(h, get_team_pieces(h, b, Light)),
                    eval_pieces(h, get_team_pieces(h, b, Dark)))

\* ------------------------------------------------------------ positions
\* Board::default(): the order of the add_piece calls.
DefaultPlacements ==
    ConcatAll([i \in 1..8 |-> << <<Pawn, Light, i - 1, 1>>, <<Pawn, Dark, i - 1, 6>> >>])
    \o << <<King, Light, 4, 0>>, <<King, Dark, 4, 7>>,
          <<Queen, Light, 3, 0>>, <<Queen, Dark, 3, 7>>,
          <<Rook, Light, 0, 0>>, <<Rook, Light, 7, 0>>,
          <<Rook, Dark, 0, 7>>, <<Rook, Dark, 7, 7>>,
          <<Knight, Light, 1, 0>>, <<Knight, Light, 6, 0>>,
          <<Knight, Dark, 1, 7>>, <<Knight, Dark, 6, 7>>,
          <<Bishop, Light, 2, 0>>, <<Bishop, Light, 5, 0>>,
          <<Bishop, Dark, 2, 7>>, <<Bishop, Dark, 5, 7>> >>

get_en_passant_actual(target_square) ==
    CASE target_square[2] = 3 -> <<target_square[1], 3>>
      [] target_square[2] = 4 -> <<target_square[1], 5>>
      [] OTHER -> target_square

fen_en_passant(target_square) ==
    IF target_square = <<8, 8>> THEN NoEnPassant
    ELSE [target_square |-> target_square,
          actual_square |-> get_en_passant_actual(target_square)]

\* From<Fen> for Board: the fields of the Fen, then add_piece per placement.
BoardFromFen(f) ==
    AddAll(<<>>,
           [BoardEmpty EXCEPT !.move_number = f.move_number,
                              !.half_move_amount = f.half_moves,
                              !.en_passant = fen_en_passant(f.en_passant),
                              !.castle_state = f.castles,
                              !.to_move = f.to_move],
           f.piece_placements, 1)

BoardDefault == AddAll(<<>>, BoardEmpty, DefaultPlacements, 1)

Fen(pl, tm, cs, ep, hm, mn) ==
    [piece_placements |-> pl, to_move |-> tm, castles |-> cs, en_passant |-> ep,
     half_moves |-> hm, move_number |-> mn]

\* r3k2r/8/8/8/8/8/8/R3K2R w KQkq - 0 1
FenCastle ==
    Fen(<< <<Rook, Dark, 0, 7>>, <<King, Dark, 4, 7>>, <<Rook, Dark, 7, 7>>,
           <<Rook, Light, 0, 0>>, <<King, Light, 4, 0>>, <<Rook, Light, 7, 0>> >>,
        Light, BoardCastleStateDefault, <<8, 8>>, 0, 1)

\* r3k2r/8/8/8/8/8/8/R3K2R b KQkq - 0 1
FenCastleDark == [FenCastle EXCEPT !.to_move = Dark]

\* 1k6/8/8/8/8/8/8/3KR2r w - - 0 1 (move.rs, test_remove_illegal_moves)
FenPin ==
    Fen(<< <<King, Dark, 1, 7>>,
           <<King, Light, 3, 0>>, <<Rook, Light, 4, 0>>, <<Rook, Dark, 7, 0>> >>,
        Light, BoardCastleStateEmpty, <<8, 8>>, 0, 1)

\* 4k3/8/8/8/3pP1n1/8/3K4/8 b - e3 0 1
FenEnPassant ==
    Fen(<< <<King, Dark, 4, 7>>,
           <<Pawn, Dark, 3, 3>>, <<Pawn, Light, 4, 3>>, <<Knight, Dark, 6, 3>>,
           <<King, Light, 3, 1>> >>,
        Dark, BoardCastleStateEmpty, <<4, 2>>, 0, 1)

\* r3k3/1P6/8/8/8/8/8/4K3 w - - 0 1
FenPromotion ==
    Fen(<< <<Rook, Dark, 0, 7>>, <<King, Dark, 4, 7>>, <<Pawn, Light, 1, 6>>,
           <<King, Light, 4, 0>> >>,
        Light, BoardCastleStateEmpty, <<8, 8>>, 0, 1)

\* 4k3/8/8/8/8/8/6p1/4K3 b - - 0 1
FenPromotionDark ==
    Fen(<< <<King, Dark, 4, 7>>, <<Pawn, Dark, 6, 1>>, <<King, Light, 4, 0>> >>,
        Dark, BoardCastleStateEmpty, <<8, 8>>, 0, 1)

\* r3k3/8/8/8/8/8/8/R3K3 w - - 255 1
FenClock ==
    Fen(<< <<Rook, Dark, 0, 7>>, <<King, Dark, 4, 7>>, <<Rook, Light, 0, 0>>,
           <<King, Light, 4, 0>> >>,
        Light, BoardCastleStateEmpty, <<8, 8>>, U8 - 1, 1)

InitialWorlds ==
    {BoardDefault, BoardFromFen(FenCastle), BoardFromFen(FenCastleDark),
     BoardFromFen(FenPin), BoardFromFen(FenEnPassant),
     BoardFromFen(FenPromotion), BoardFromFen(FenPromotionDark),
     BoardFromFen(FenClock)}

ProbedWorlds ==
    {BoardDefault, BoardFromFen(FenCastle), BoardFromFen(FenPin), BoardFromFen(FenEnPassant)}

\* ------------------------------------------------------------ state machine
NoMove == new_move(<<8, 8>>)

Last(op, start, mv, variant, result, kept) ==
    [op |-> op, heap |-> heap, board |-> board, start |-> start, mv |-> mv,
     variant |-> variant, result |-> result, kept |-> kept, reads |-> <<>>]

\* The record of a commit: the reads of the threatened grid made between its
\* reset and the end of the recompute.
LastCommit(op, start, mv, variant, reads) ==
    [op |-> op, heap |-> heap, board |-> board, start |-> start, mv |-> mv,
     variant |-> variant, result |-> FALSE, kept |-> <<>>, reads |-> reads]

InitFrom(worlds) ==
    /\ \E w \in worlds : heap = w.heap /\ board = w.b
    /\ panicked = FALSE
    /\ build \in {"debug", "release"}
    /\ commits = 0
    /\ probes = 0
    /\ last = [op |-> "init", heap |-> <<>>, board |-> BoardEmpty, start |-> <<8, 8>>,
               mv |-> NoMove, variant |-> "None", result |-> FALSE, kept |-> <<>>,
               reads |-> <<>>]

Init == InitFrom(InitialWorlds)

InitProbe == InitFrom(ProbedWorlds)

CanGenerate ==
    /\ ~panicked
    /\ ~get_moves_panics(heap, board, get_all_pieces(heap, board, board.to_move))

Candidates == FlatMoves(get_pseudo_legal_moves(heap, board))

Commit(w) ==
    /\ panicked' = ~w.ok
    /\ heap' = IF w.ok THEN w.heap ELSE heap
    /\ board' = IF w.ok THEN w.b ELSE board
    /\ commits' = commits + 1
    /\ UNCHANGED <<build, probes>>

DoBlunderStep ==
    /\ CanGenerate
    /\ LET try(cs) ==
               \E i \in 1..Len(cs) :
                  /\ Commit(do_blunder(heap, board, cs[i].from, cs[i].mv))
                  /\ last' = LastCommit("do_blunder", cs[i].from, cs[i].mv, "None",
                                        do_blunder_reads(heap, board, cs[i].from, cs[i].mv))
       IN  try(Candidates)

CastleStep ==
    /\ ~panicked
    /\ LET try(offered) ==
               \E i \in 1..Len(offered) :
                  /\ Commit(castle(heap, board, offered[i]))
                  /\ last' = LastCommit("castle", <<8, 8>>, NoMove, offered[i],
                                        castle_reads(heap, board, offered[i]))
       IN  try(get_castle_moves(heap, board, board.castle_state, board.to_move))

ProbeDone(h, ok) ==
    /\ panicked' = ~ok
    /\ heap' = h
    /\ probes' = probes + 1
    /\ UNCHANGED <<board, build, commits>>

CheckIfLegalMove ==
    /\ CanGenerate
    /\ probes < MaxProbes
    /\ LET done(c, m) ==
               /\ ProbeDone(c.heap, c.ok)
               /\ last' = Last("check_if_legal_move", m.from, m.mv, "None", c.result, <<>>)
           try(cs) ==
               \E i \in 1..Len(cs) :
                  done(check_if_legal_move(heap, board, cs[i].from, cs[i].mv), cs[i])
       IN  try(Candidates)

MoveOnClonedBoard ==
    /\ CanGenerate
    /\ probes < MaxProbes
    /\ LET done(w, m) ==
               /\ ProbeDone(Shared(w.heap, Len(heap)), w.ok)
               /\ last' = Last("move_on_cloned_board", m.from, m.mv, "None", FALSE, <<>>)
           try(cs) ==
               \E i \in 1..Len(cs) :
                  done(move_on_cloned_board(heap, board, cs[i].from, cs[i].mv), cs[i])
       IN  try(Candidates)

ContainsCheck ==
    /\ CanGenerate
    /\ probes < MaxProbes
    /\ LET done(c, m) ==
               /\ ProbeDone(c.heap, c.ok)
               /\ last' = Last("contains_check", m.from, NoMove, "None", c.result,
                               m.basic_move)
           try(ms) == \E k \in 1..Len(ms) : done(contains_check(heap, board, ms[k]), ms[k])
       IN  try(get_pseudo_legal_moves(heap, board))

RemoveIllegalMoves ==
    /\ CanGenerate
    /\ probes < MaxProbes
    /\ LET done(r, m) ==
               /\ ProbeDone(r.heap, r.ok)
               /\ last' = Last("remove_illegal_moves", m.from, NoMove, "None", FALSE,
                               r.basic_move)
           try(ms) == \E k \in 1..Len(ms) : done(remove_illegal_moves(heap, board, ms[k]), ms[k])
       IN  try(get_pseudo_legal_moves(heap, board))

DoBlunder == commits < MaxCommits /\ DoBlunderStep

Castle == commits < MaxCommits /\ CastleStep

\* check_checker(team) for either team; the team is recorded as the variant.
CheckChecker ==
    /\ ~panicked
    /\ probes < MaxProbes
    /\ \E team \in {Light, Dark} :
          LET done(c) ==
                  /\ ProbeDone(c.heap, c.ok)
                  /\ last' = Last("check_checker", <<8, 8>>, NoMove, team, c.result, <<>>)
          IN  done(check_checker(heap, board, team))

ProbedDoBlunder == commits < MaxProbeCommits /\ DoBlunderStep

ProbedCastle == commits < MaxProbeCommits /\ CastleStep

\* Commits only.
Next ==
    \/ DoBlunder
    \/ Castle

Spec == Init /\ [][Next]_vars

\* Commits and the probes that work on clones.
NextProbe ==
    \/ ProbedDoBlunder
    \/ ProbedCastle
    \/ CheckIfLegalMove
    \/ MoveOnClonedBoard
    \/ ContainsCheck
    \/ RemoveIllegalMoves
    \/ CheckChecker

SpecProbe == InitProbe /\ [][NextProbe]_vars

\* Commits and the queries that read the board.
QueryDone(ok) ==
    /\ panicked' = ~ok
    /\ probes' = probes + 1
    /\ UNCHANGED <<heap, board, build, commits>>

BoardGetPseudoLegalMoves ==
    /\ ~panicked
    /\ probes < MaxProbes
    /\ IF get_moves_panics(heap, board, get_all_pieces(heap, board, board.to_move))
       THEN /\ QueryDone(FALSE)
            /\ last' = Last("Board::get_pseudo_legal_moves", <<8, 8>>, NoMove, "None", FALSE, <<>>)
       ELSE /\ QueryDone(TRUE)
            /\ last' = Last("Board::get_pseudo_legal_moves", <<8, 8>>, NoMove, "None", FALSE,
                            get_pseudo_legal_moves(heap, board))

GetAllPseudoLegalMoves ==
    /\ ~panicked
    /\ probes < MaxProbes
    /\ IF get_moves_panics(heap, board, board.pieces)
       THEN /\ QueryDone(FALSE)
            /\ last' = Last("get_all_pseudo_legal_moves", <<8, 8>>, NoMove, "None", FALSE,
                            <<>>)
       ELSE /\ QueryDone(TRUE)
            /\ last' = Last("get_all_pseudo_legal_moves", <<8, 8>>, NoMove, "None", FALSE,
                            get_all_pseudo_legal_moves(heap, board))

NextQuery ==
    \/ ProbedDoBlunder
    \/ ProbedCastle
    \/ BoardGetPseudoLegalMoves
    \/ GetAllPseudoLegalMoves

SpecQuery == Init /\ [][NextQuery]_vars

\* --------------------------------------------- generators on sample boards
\* A sample board holds one subject piece (heap id 1) and at most one other
\* piece, placed at an offset from the subject that its generator looks at.
PieceTypes == <<Pawn, Knight, Bishop, Rook, Queen, King>>

OccupantTypes == <<Knight, Bishop, Rook, Queen, King>>

KnightDirections == <<"WN", "EN", "ES", "WS", "NW", "NE", "SE", "SW">>

RayOffsets(directions) ==
    ConcatAll([i \in 1..Len(directions) |->
                  [k \in 1..MaxReach |->
                      <<k * DirDelta[directions[i]][1], k * DirDelta[directions[i]][2]>>]])

SampleOffsets(t) ==
    CASE t = Knight -> [i \in 1..Len(KnightDirections) |-> KnightDelta[KnightDirections[i]]]
      [] t = Rook -> RayOffsets(<<"N", "E", "S", "W">>)
      [] t = Bishop -> RayOffsets(<<"NW", "NE", "SE", "SW">>)
      [] t = Pawn -> RayOffsets(<<"N", "S", "NW", "NE", "SE", "SW">>)
      [] OTHER -> RayOffsets(<<"N", "E", "S", "W", "NW", "NE", "SE", "SW">>)

\* The other piece of sample k (none for k = 0, or when it falls off the board).
SampleOccupant(q, offsets, k, occupant_color) ==
    IF k = 0 \/ <<q[1] + offsets[k][1], q[2] + offsets[k][2]>> \notin Squares THEN <<>>
    ELSE << <<OccupantTypes[(k % Len(OccupantTypes)) + 1], occupant_color,
              q[1] + offsets[k][1], q[2] + offsets[k][2]>> >>

SampleWorld(t, c, q, has_moved, k, occupant_color) ==
    LET moved(w) == World([w.heap EXCEPT ![1].has_moved = has_moved], w.b, w.ok)
    IN  moved(BoardFromFen(Fen(<< <<t, c, q[1], q[2]>> >>
                                  \o SampleOccupant(q, SampleOffsets(t), k, occupant_color),
                               c, BoardCastleStateEmpty, <<8, 8>>, 0, 1)))

\* Pawns stand on ranks 2 to 7; a pawn on its home rank has not moved.
SampleAllowed(t, c, q, has_moved, k, occupant_color) ==
    /\ t = Pawn => q[2] \in 1..6
    /\ has_moved => t = Pawn /\ q[2] # (IF c = Light THEN 1 ELSE 6)
    /\ k = 0 => occupant_color = Light
    /\ k # 0 => <<q[1] + SampleOffsets(t)[k][1], q[2] + SampleOffsets(t)[k][2]>> \in Squares

InitGen ==
    /\ \E i \in 1..Len(PieceTypes), c \in {Light, Dark}, q \in Squares, has_moved \in BOOLEAN,
          occupant_color \in {Light, Dark} :
          \E k \in 0..Len(SampleOffsets(PieceTypes[i])) :
             /\ SampleAllowed(PieceTypes[i], c, q, has_moved, k, occupant_color)
             /\ heap = SampleWorld(PieceTypes[i], c, q, has_moved, k, occupant_color).heap
             /\ board = SampleWorld(PieceTypes[i], c, q, has_moved, k, occupant_color).b
    /\ panicked = FALSE
    /\ build \in {"debug", "release"}
    /\ commits = 0
    /\ probes = 0
    /\ last = [op |-> "init", heap |-> <<>>, board |-> BoardEmpty, start |-> <<8, 8>>,
               mv |-> NoMove, variant |-> "None", result |-> FALSE, kept |-> <<>>,
               reads |-> <<>>]

\* Piece::get_pseudo_legal_moves of the subject, called once per sample.
GetPseudoLegalMoves ==
    /\ last.op = "init"
    /\ LET call(p) ==
               /\ panicked' = (build = "debug" /\ p.type = Pawn
                               /\ pawn_moves_overflows(heap, board, p.coordinate, p.color))
               /\ last' = Last("get_pseudo_legal_moves", p.coordinate, NoMove, "None", FALSE,
                               piece_pseudo_legal_moves(heap, board, p.type, p.coordinate,
                                                        p.color, p.has_moved))
       IN  call(heap[board.pieces[1]])
    /\ UNCHANGED <<heap, board, build, commits, probes>>

NextGen == GetPseudoLegalMoves

SpecGen == InitGen /\ [][NextGen]_vars

\* ---------------------------------------------------------------- claims
Listed(b, id) == \E i \in 1..Len(b.pieces) : b.pieces[i] = id

OnGrid(b, id) == \E sq \in Squares : b.grid[sq] = id

\* C1: after any sequence of do_blunder and castle calls the grid and the
\* piece list agree: every listed piece sits in the grid cell of its own
\* coordinate, every occupied cell holds a listed piece, and no two listed
\* pieces share a coordinate.
C1_GridAndListAgree ==
    /\ \A i \in 1..Len(board.pieces) :
          /\ heap[board.pieces[i]].coordinate \in Squares
          /\ board.grid[heap[board.pieces[i]].coordinate] = board.pieces[i]
    /\ \A sq \in Squares : board.grid[sq] # 0 => Listed(board, board.grid[sq])
    /\ \A i, j \in 1..Len(board.pieces) :
          i # j => heap[board.pieces[i]].coordinate # heap[board.pieces[j]].coordinate

\* The census the claim describes: every pseudo-legal move of the team, the
\* king's generated on a grid without threats so that none is filtered.
Destinations(h, b, team_color) ==
    FlatMoves(get_pseudo_legal_moves_util(h, remove_all_threats(b), team_color))

Hits(flat, q) == Cardinality({i \in 1..Len(flat) : flat[i].mv.to = q})

CensusIs(light, dark) ==
    \A q \in Squares :
        /\ board.threatened_state[q].threatened_light = Hits(light, q)
        /\ board.threatened_state[q].threatened_dark = Hits(dark, q)

\* C3: immediately after do_blunder returns, the threatened counter of each
\* colour at each square equals the number of that colour's pseudo-legal
\* moves to the square in the resulting position, the moves of either king
\* counted without the threatened-square filter.
C3_CensusCountsEveryMove ==
    (last.op = "do_blunder" /\ ~panicked)
        => CensusIs(Destinations(heap, board, Light), Destinations(heap, board, Dark))

CapturedAndMoved(victim, mover) ==
    /\ victim # 0 =>
          /\ heap[victim].out_of_game
          /\ ~OnGrid(board, victim)
          /\ ~Listed(board, victim)
    /\ mover # 0
    /\ heap[mover].color = heap[get_at(last.board, last.start)].color
    /\ Listed(board, mover)
    /\ ~heap[mover].out_of_game

\* C5: after do_blunder with a move that carries a Capture, the piece that
\* stood on the captured square is out of game and in neither the grid nor
\* the piece list, while the moving piece stands on the destination, is
\* listed and is not out of game.
C5_CaptureDetachesTheVictim ==
    (last.op = "do_blunder" /\ ~panicked /\ last.mv.capture # NoCapture)
        => CapturedAndMoved(get_at(last.board, last.mv.capture.target),
                            get_at(board, last.mv.to))

KingsOf(team_color) ==
    {id \in 1..Len(heap) :
        Listed(board, id) /\ heap[id].type = King /\ heap[id].color = team_color}

Unthreatened(moves, team_color) ==
    \A i \in 1..Len(moves) :
        IF team_color = Light
        THEN board.threatened_state[moves[i].to].threatened_dark = 0
        ELSE board.threatened_state[moves[i].to].threatened_light = 0

\* C6: king_moves never returns a move, quiet or capturing, to a square with
\* a non-zero opponent threat count in the board's threatened grid.
C6_KingAvoidsThreatenedSquares ==
    ~panicked =>
        \A team_color \in {Light, Dark} :
            \A id \in KingsOf(team_color) :
                Unthreatened(king_moves(heap, board, heap[id].coordinate, team_color),
                             team_color)

HomeRank(team_color) == IF team_color = Light THEN 0 ELSE 7

VariantsOf(team_color) ==
    IF team_color = Light THEN {"LightKingSide", "LightQueenSide"}
    ELSE {"DarkKingSide", "DarkQueenSide"}

KingSide(v) == v \in {"LightKingSide", "DarkKingSide"}

RightOf(castle_state, v) ==
    CASE v = "LightKingSide" -> castle_state.light_king_side
      [] v = "LightQueenSide" -> castle_state.light_queen_side
      [] v = "DarkKingSide" -> castle_state.dark_king_side
      [] v = "DarkQueenSide" -> castle_state.dark_queen_side

OpponentThreat(q, team_color) ==
    IF team_color = Light THEN board.threatened_state[q].threatened_dark
    ELSE board.threatened_state[q].threatened_light

MayCastle(v, team_color) ==
    /\ RightOf(board.castle_state, v)
    /\ \A x \in (IF KingSide(v) THEN {5, 6} ELSE {1, 2, 3}) :
          board.grid[<<x, HomeRank(team_color)>>] = 0
    /\ \A x \in (IF KingSide(v) THEN {5, 6} ELSE {3, 2}) :
          OpponentThreat(<<x, HomeRank(team_color)>>, team_color) = 0

Offers(offered, v) == \E i \in 1..Len(offered) : offered[i] = v

\* C7: get_castle_moves returns a variant for its colour exactly when its
\* right is set, the squares strictly between king and rook are empty and the
\* squares the king passes or lands on (f, g or d, c) carry no opponent
\* threat; on the starting position it returns nothing for either colour.
C7_CastleOfferedIffAllowed ==
    ~panicked =>
        \A team_color \in {Light, Dark} :
            \A v \in VariantsOf(team_color) :
                Offers(get_castle_moves(heap, board, board.castle_state, team_color), v)
                    <=> MayCastle(v, team_color)

IsPiece(id, t, team_color) ==
    id # 0 /\ heap[id].type = t /\ heap[id].color = team_color

Castled(v, team_color, y) ==
    /\ IsPiece(board.grid[<<(IF KingSide(v) THEN 6 ELSE 2), y>>], King, team_color)
    /\ IsPiece(board.grid[<<(IF KingSide(v) THEN 5 ELSE 3), y>>], Rook, team_color)
    /\ board.grid[<<4, y>>] = 0
    /\ board.grid[<<(IF KingSide(v) THEN 7 ELSE 0), y>>] = 0

TeamOf(v) == IF v \in VariantsOf(Light) THEN Light ELSE Dark

\* C8: after castle(variant) the king stands on the g (king side) or c (queen
\* side) file of its home rank, the rook on the f or d file of that rank, and
\* the origin squares of both are empty, for all four variants.
C8_CastlePlacesKingAndRook ==
    (last.op = "castle" /\ ~panicked)
        => Castled(last.variant, TeamOf(last.variant), HomeRank(TeamOf(last.variant)))

\* C9: after castle() by a colour both of its castle rights are false and both
\* rights of the opponent have the value they had before the call.
C9_CastleClearsOwnRightsOnly ==
    (last.op = "castle" /\ ~panicked)
        => /\ \A v \in VariantsOf(TeamOf(last.variant)) : ~RightOf(board.castle_state, v)
           /\ \A v \in VariantsOf(get_opponent(TeamOf(last.variant))) :
                 RightOf(board.castle_state, v) = RightOf(last.board.castle_state, v)

Unmoved(id, t, team_color) == IsPiece(id, t, team_color) /\ ~heap[id].has_moved

\* C10: after any sequence of commits a castle right that is still set implies
\* that its king and its rook have never moved.
C10_RightImpliesNeverMoved ==
    ~panicked =>
        \A team_color \in {Light, Dark} :
            \A v \in VariantsOf(team_color) :
                RightOf(board.castle_state, v)
                    => /\ Unmoved(board.grid[<<4, HomeRank(team_color)>>], King, team_color)
                       /\ Unmoved(board.grid[<<(IF KingSide(v) THEN 7 ELSE 0),
                                                HomeRank(team_color)>>], Rook, team_color)

HoldsBothKings(h, b) ==
    \A team_color \in {Light, Dark} :
        \E sq \in Squares : b.grid[sq] # 0 /\ h[b.grid[sq]].type = King
                               /\ h[b.grid[sq]].color = team_color

KingCapturable(w, opponent) ==
    \E i \in 1..Len(FlatMoves(get_pseudo_legal_moves_util(w.heap, w.b, opponent))) :
        contains_king(<<FlatMoves(get_pseudo_legal_moves_util(w.heap, w.b, opponent))[i].mv>>)

\* C2: on a board holding both kings, check_if_legal_move(s, m) for a
\* pseudo-legal move m of the side to move returns false exactly when, in the
\* position reached by committing m, some pseudo-legal move of the opponent
\* captures the mover's king.
C2_IllegalIffKingCapturable ==
    (last.op = "check_if_legal_move" /\ ~panicked /\ HoldsBothKings(last.heap, last.board))
        => (~last.result
               <=> KingCapturable(do_blunder(last.heap, last.board, last.start, last.mv),
                                  get_opponent(last.board.to_move)))

\* C4: exploring a hypothetical move never changes the board it is explored
\* on: after check_if_legal_move, move_on_cloned_board, contains_check or
\* remove_illegal_moves returns, the grid, the piece list, every piece's
\* coordinate, out_of_game and has_moved, the side to move, the counters and
\* the threatened grid are as before the call.
C4_ProbesLeaveTheBoardAlone ==
    (last.op \in {"check_if_legal_move", "move_on_cloned_board", "contains_check",
                  "remove_illegal_moves"} /\ ~panicked)
        => (heap = last.heap /\ board = last.board)

\* The square of the pawn that has just advanced two squares past `target`.
JustAdvanced(target) == <<target[1], IF target[2] = 2 THEN 3 ELSE 4>>

\* The moves pawn_moves pushes because a diagonal equals the en-passant
\* target: captures to the target that take no piece standing on it.
EnPassantCaptures(h, b, moves, team_color) ==
    LET Taken(mv) ==
            /\ mv.capture # NoCapture
            /\ mv.to = b.en_passant.target_square
            /\ ~(get_at(b, mv.to) # 0 /\ h[get_at(b, mv.to)].color # team_color)
    IN  SelectSeq(moves, Taken)

PawnsOf(h, b) == {id \in 1..Len(h) : Listed(b, id) /\ h[id].type = Pawn}

CapturesOn(moves, sq) ==
    \A i \in 1..Len(moves) : moves[i].capture.target = sq /\ moves[i].capture.target # moves[i].to

\* C11: when the board has an en-passant target and a pawn's diagonal equals
\* it, the capture pawn_moves generates names as captured square the square
\* of the pawn that just advanced two squares, not the move's destination.
C11_EnPassantNamesTheAdvancedPawn ==
    (~panicked /\ board.en_passant # NoEnPassant) =>
        \A id \in PawnsOf(heap, board) :
            CapturesOn(EnPassantCaptures(heap, board,
                           pawn_moves(heap, board, heap[id].coordinate, heap[id].color,
                                      heap[id].has_moved),
                           heap[id].color),
                       JustAdvanced(board.en_passant.target_square))

\* The subject of a generator call and what the call returned.
Generated(t) ==
    /\ last.op = "get_pseudo_legal_moves"
    /\ heap[board.pieces[1]].type = t

Ahead(q, team_color, n) == <<q[1], IF team_color = Light THEN q[2] + n ELSE q[2] - n>>

EmptySquare(b, sq) == sq \in Squares /\ b.grid[sq] = 0

OffersQuiet(moves, sq) == \E i \in 1..Len(moves) : moves[i] = new_move(sq)

\* A quiet pawn move that is not the one-square advance is the two-square one.
OffersSecondStep(moves, first) ==
    \E i \in 1..Len(moves) : moves[i].capture = NoCapture /\ moves[i].to # first

DoubleStepRule(p, moves) ==
    /\ OffersSecondStep(moves, Ahead(p.coordinate, p.color, 1))
           <=> /\ ~p.has_moved
               /\ EmptySquare(board, Ahead(p.coordinate, p.color, 1))
               /\ EmptySquare(board, Ahead(p.coordinate, p.color, 2))
    /\ OffersQuiet(moves, Ahead(p.coordinate, p.color, 1))
           <=> EmptySquare(board, Ahead(p.coordinate, p.color, 1))

\* C12: pawn_moves offers the two-square advance exactly when has_moved is
\* false and both squares ahead of the pawn are empty, and the one-square
\* advance exactly when the square directly ahead is empty.
C12_PawnDoubleStepIffUnmovedAndFree ==
    (Generated(Pawn) /\ ~panicked) => DoubleStepRule(heap[board.pieces[1]], last.kept)

RayDirections(t) ==
    CASE t = Rook -> {"N", "E", "S", "W"}
      [] t = Bishop -> {"NW", "NE", "SE", "SW"}
      [] t = Queen -> {"N", "E", "S", "W", "NW", "NE", "SE", "SW"}
      [] OTHER -> {}

Toward(d) ==
    <<(IF d \in {"E", "NE", "SE"} THEN 1 ELSE IF d \in {"W", "NW", "SW"} THEN -1 ELSE 0),
      (IF d \in {"N", "NE", "NW"} THEN 1 ELSE IF d \in {"S", "SE", "SW"} THEN -1 ELSE 0)>>

\* The k-th square from q outward in direction d.
Outward(q, d, k) == <<q[1] + k * Toward(d)[1], q[2] + k * Toward(d)[2]>>

RayLength(q, d) == Cardinality({k \in 1..7 : Outward(q, d, k) \in Squares})

\* The distance of the first occupied square of the ray, one past the border
\* when the ray is free.
FirstOccupied(b, q, d) ==
    LET occupied == {k \in 1..RayLength(q, d) : b.grid[Outward(q, d, k)] # 0}
    IN  IF occupied = {} THEN RayLength(q, d) + 1
        ELSE CHOOSE k \in occupied : \A j \in occupied : k <= j

ExpectedRay(h, b, q, d, team_color) ==
    LET upto(n) ==
            [k \in 1..(n - 1) |-> new_move(Outward(q, d, k))]
            \o (IF n <= RayLength(q, d) /\ h[b.grid[Outward(q, d, n)]].color # team_color
                THEN <<new_capture(Outward(q, d, n), h[b.grid[Outward(q, d, n)]].type)>>
                ELSE <<>>)
    IN  upto(FirstOccupied(b, q, d))

AlongRay(moves, q, d) ==
    LET OnRay(mv) == \E k \in 1..7 : mv.to = Outward(q, d, k)
    IN  SelectSeq(moves, OnRay)

RaysAsExpected(p, moves) ==
    /\ \A d \in RayDirections(p.type) :
          AlongRay(moves, p.coordinate, d) = ExpectedRay(heap, board, p.coordinate, d, p.color)
    /\ \A i \in 1..Len(moves) :
          \E d \in RayDirections(p.type) : \E k \in 1..7 :
             moves[i].to = Outward(p.coordinate, d, k)

\* C13: for Rook, Bishop and Queen the moves along each ray are the squares
\* from the origin outward up to the first occupied square: none beyond it,
\* the occupied square included exactly when its occupant is of the opposite
\* colour, as a capture carrying the occupant's type, all earlier moves quiet.
C13_RaysStopAtFirstOccupant ==
    ((Generated(Rook) \/ Generated(Bishop) \/ Generated(Queen)) /\ ~panicked)
        => RaysAsExpected(heap[board.pieces[1]], last.kept)

\* A queen with an enemy two squares away on a ray: one quiet move, then the
\* capture, and nothing behind it.
C13_EnemyOnRayIsCaptured ==
    /\ Generated(Queen)
    /\ \E d \in RayDirections(Queen) :
          /\ RayLength(heap[board.pieces[1]].coordinate, d) > 2
          /\ FirstOccupied(board, heap[board.pieces[1]].coordinate, d) = 2
          /\ Len(AlongRay(last.kept, heap[board.pieces[1]].coordinate, d)) = 2
          /\ AlongRay(last.kept, heap[board.pieces[1]].coordinate, d)[2].capture # NoCapture

OnBoard(coordinates) == \A i \in 1..Len(coordinates) : coordinates[i] \in Squares

DestinationsOnBoard(moves) == \A i \in 1..Len(moves) : moves[i].to \in Squares

\* The diagonals ahead of the pawn that exist on the board.
DiagonalsAhead(p) ==
    {sq \in Squares : sq[2] = Ahead(p.coordinate, p.color, 1)[2]
                       /\ (sq[1] = p.coordinate[1] - 1 \/ sq[1] = p.coordinate[1] + 1)}

PawnStaysOnBoard(p, moves) ==
    /\ ~pawn_moves_overflows(heap, board, p.coordinate, p.color)
    /\ OnBoard(pawn_moves_coordinates(heap, board, p.coordinate, p.color))
    /\ DestinationsOnBoard(moves)
    /\ {pawn_capture_diagonal(p.coordinate, next_row(p.coordinate[2], p.color, 1))[i] :
            i \in 1..Len(pawn_capture_diagonal(p.coordinate,
                                               next_row(p.coordinate[2], p.color, 1)))}
          = DiagonalsAhead(p)

\* C14: for a pawn of either colour on any file and any rank 2 to 7, with
\* either has_moved value and any occupancy, pawn_moves never builds or looks
\* up a coordinate outside the board, never under- or overflows its u8
\* arithmetic and never returns a destination outside the board; an edge pawn
\* tests only the diagonal that is on the board.
C14_PawnNeverLeavesTheBoard ==
    Generated(Pawn) => (~panicked /\ PawnStaysOnBoard(heap[board.pieces[1]], last.kept))

\* The coordinates the queued directions make explore_knight_moves and
\* explore_king_moves compute from the origin.
Attempted(q, queue, delta) ==
    [i \in 1..Len(queue) |-> <<q[1] + delta[queue[i]][1], q[2] + delta[queue[i]][2]>>]

LeapsStayOnBoard(p, moves) ==
    /\ DestinationsOnBoard(moves)
    /\ p.type = Knight =>
          OnBoard(Attempted(p.coordinate, knight_queue(distance_to_border(p.coordinate)),
                            KnightDelta))
    /\ p.type = King =>
          OnBoard(Attempted(p.coordinate, king_queue(distance_to_border(p.coordinate)),
                            DirDelta))

\* C15: for every origin square and every board, every destination returned
\* by knight_moves and by king_moves has both coordinates in 0..7, and no
\* offset is computed that would leave the u8 range: an offset is attempted
\* only when the border distances allow it.
C15_KnightAndKingStayOnBoard ==
    ((Generated(Knight) \/ Generated(King)) /\ ~panicked)
        => LeapsStayOnBoard(heap[board.pieces[1]], last.kept)

\* A knight in a corner: two of the eight offsets are attempted, both land on
\* the board.
C15_CornerKnightHasTwoLeaps ==
    /\ Generated(Knight)
    /\ heap[board.pieces[1]].coordinate = <<0, 0>>
    /\ Len(knight_queue(distance_to_border(<<0, 0>>))) = 2
    /\ Len(last.kept) = 2

\* C16: within a commit the threatened grid is never read between its reset
\* at the start of the commit and the completion of the recompute for both
\* colours: no move generator, king_moves of the recompute included, observes
\* a reset or partially filled grid.
C16_NoReadOfAStaleGrid ==
    (last.op \in {"do_blunder", "castle"} /\ ~panicked) => last.reads = <<>>

NoPawnAt(sq) ==
    /\ \A i \in 1..Len(board.pieces) :
          heap[board.pieces[i]].coordinate = sq => heap[board.pieces[i]].type # Pawn
    /\ heap[board.grid[sq]].type # Pawn

\* mover: the piece object on the origin before the commit; arrived: the id
\* on the destination after it.
PromotedOrSame(mover, arrived, to) ==
    /\ arrived # 0
    /\ IF mover.type = Pawn /\ to[2] \in {0, 7}
       THEN /\ heap[arrived].type = Queen
            /\ heap[arrived].color = mover.color
            /\ heap[arrived].has_moved
            /\ NoPawnAt(to)
       ELSE heap[arrived].type = mover.type

\* C17: when do_blunder moves a pawn onto the last rank, the piece on the
\* destination afterwards is a Queen of the pawn's colour with has_moved set
\* and no pawn remains on that square or in the piece list for it; any other
\* move leaves the moving piece's type unchanged.
C17_PawnOnLastRankBecomesQueen ==
    (last.op = "do_blunder" /\ ~panicked)
        => PromotedOrSame(last.heap[get_at(last.board, last.start)],
                          get_at(board, last.mv.to), last.mv.to)

\* A pawn has captured onto the last rank and a Queen stands there.
C17_PawnPromotedByCapture ==
    /\ last.op = "do_blunder"
    /\ ~panicked
    /\ last.heap[get_at(last.board, last.start)].type = Pawn
    /\ last.mv.to[2] = 7
    /\ last.mv.capture # NoCapture
    /\ heap[get_at(board, last.mv.to)].type = Queen

MoverType == last.heap[get_at(last.board, last.start)].type

ClockAfter(before, piece_type, capture) ==
    IF piece_type = Pawn \/ capture THEN 0 ELSE before + 1

\* C18: do_blunder sets the half-move clock to 0 when the moved piece is a
\* pawn or the move carries a capture, and otherwise increases it by exactly 1.
C18_HalfMoveClockResetOrPlusOne ==
    (last.op = "do_blunder" /\ ~panicked)
        => board.half_move_amount =
               ClockAfter(last.board.half_move_amount, MoverType,
                          last.mv.capture # NoCapture)

MoverColor == last.heap[get_at(last.board, last.start)].color

\* The objects created first are the pieces of the starting position: the
\* history began on Board::default().
FromDefault ==
    /\ Len(heap) >= Len(BoardDefault.heap)
    /\ \A i \in 1..Len(BoardDefault.heap) :
          /\ heap[i].type = BoardDefault.heap[i].type
          /\ heap[i].color = BoardDefault.heap[i].color

Alternated ==
    board.to_move = IF commits % 2 = 0 THEN Light ELSE Dark

\* C19: do_blunder increases move_number by exactly 1 when the move is made
\* by Dark and leaves it unchanged when it is made by Light, so that after n
\* commits alternating Light, Dark, ... from the starting position
\* move_number equals 1 + floor(n / 2).
C19_MoveNumberCountsDarkMoves ==
    /\ (last.op = "do_blunder" /\ ~panicked)
          => board.move_number =
                 last.board.move_number + (IF MoverColor = Dark THEN 1 ELSE 0)
    /\ (FromDefault /\ ~panicked /\ last.op \in {"init", "do_blunder"})
          => (Alternated /\ board.move_number = 1 + (commits \div 2))

\* Light and then Dark have moved from the starting position.
C19_SecondMoveBegins ==
    /\ FromDefault
    /\ ~panicked
    /\ last.op = "do_blunder"
    /\ MoverColor = Dark
    /\ commits = 2
    /\ board.move_number = 2

OnStartingPosition == last.heap = BoardDefault.heap /\ last.board = BoardDefault.b

\* C20: check_checker(team) returns true if and only if some piece of `team`
\* has a pseudo-legal move in the current position that captures the opposing
\* king; it returns false for both teams on the starting position.
C20_CheckCheckerIffKingAttacked ==
    (last.op = "check_checker" /\ ~panicked)
        => /\ last.result <=> KingCapturable([heap |-> last.heap, b |-> last.board],
                                             last.variant)
           /\ OnStartingPosition => ~last.result

OnSquares(h, b, team_color) ==
    {id \in 1..Len(h) : OnGrid(b, id) /\ h[id].color = team_color}

RECURSIVE ValueOf(_, _)
ValueOf(h, ids) ==
    IF ids = {} THEN 0
    ELSE LET id == CHOOSE x \in ids : TRUE
         IN  get_value(h[id].type) + ValueOf(h, ids \ {id})

Material(h, b) == ValueOf(h, OnSquares(h, b, Light)) - ValueOf(h, OnSquares(h, b, Dark))

RECURSIVE ThreatBalance(_, _)
ThreatBalance(b, squares) ==
    IF squares = {} THEN 0
    ELSE LET sq == CHOOSE x \in squares : TRUE
         IN  b.threatened_state[sq].threatened_light - b.threatened_state[sq].threatened_dark
                + ThreatBalance(b, squares \ {sq})

Center == {<<3, 3>>, <<3, 4>>, <<4, 3>>, <<4, 4>>}

\* C21: eval(board) equals the material of Light's pieces minus that of
\* Dark's pieces, plus the Light minus Dark threat counts of the stored grid
\* summed over the four center squares, plus the same sum over all 64
\* squares; the starting position scores 0.
C21_EvalIsMaterialPlusThreats ==
    ~panicked
        => /\ eval(heap, board)
                  = Material(heap, board) + ThreatBalance(board, Center)
                       + ThreatBalance(board, Squares)
           /\ (heap = BoardDefault.heap /\ board = BoardDefault.b) => eval(heap, board) = 0

SignOf(n) == IF n > 0 THEN 1 ELSE IF n < 0 THEN -1 ELSE 0

\* The sign of the float eval_board returns: a wrapped difference is a large
\* positive number.
EvalBoardSign(r) == IF r.wrapped THEN 1 ELSE SignOf(r.value)

\* C22: eval_board returns the material balance as a signed number for every
\* position: positive when Light's pieces are worth more, negative when
\* Dark's are worth more, 0 when equal, without underflow of the unsigned
\* sums.
C22_EvalBoardIsSignedBalance ==
    ~panicked
        => /\ eval_board(heap, board).ok
           /\ ~eval_board(heap, board).wrapped
           /\ EvalBoardSign(eval_board(heap, board)) = SignOf(Material(heap, board))

EntriesOf(ms, t, team_color) ==
    {i \in 1..Len(ms) :
        /\ last.heap[get_at(last.board, ms[i].from)].type = t
        /\ last.heap[get_at(last.board, ms[i].from)].color = team_color}

RECURSIVE MovesIn(_, _)
MovesIn(ms, entries) ==
    IF entries = {} THEN 0
    ELSE LET i == CHOOSE x \in entries : TRUE
         IN  Len(ms[i].basic_move) + MovesIn(ms, entries \ {i})

\* The opening count of one side: eight pawn entries with sixteen moves and
\* two knight entries with four, and nothing else.
OpeningMoves(ms, team_color) ==
    /\ Cardinality(EntriesOf(ms, Pawn, team_color)) = 8
    /\ MovesIn(ms, EntriesOf(ms, Pawn, team_color)) = 16
    /\ Cardinality(EntriesOf(ms, Knight, team_color)) = 2
    /\ MovesIn(ms, EntriesOf(ms, Knight, team_color)) = 4
    /\ \A t \in {Bishop, Rook, Queen, King} : EntriesOf(ms, t, team_color) = {}

\* C23: on the standard starting position each side has exactly 20
\* pseudo-legal moves (16 pawn moves and 4 knight moves) in exactly 10
\* non-empty Moves entries (8 pawns and 2 knights), so
\* get_all_pseudo_legal_moves returns 20 entries.
C23_StartingPositionHasTwentyMovesASide ==
    (last.op = "get_all_pseudo_legal_moves" /\ ~panicked /\ OnStartingPosition)
        => /\ Len(last.kept) = 20
           /\ \A i \in 1..Len(last.kept) : last.kept[i].basic_move # <<>>
           /\ OpeningMoves(last.kept, Light)
           /\ OpeningMoves(last.kept, Dark)

\* get_all_pseudo_legal_moves has answered on the starting position.
C23_StartingPositionQueried ==
    /\ last.op = "get_all_pseudo_legal_moves"
    /\ ~panicked
    /\ OnStartingPosition
    /\ Len(last.kept) = 20

PieceSet(h, b) ==
    {<<h[b.pieces[i]].type, h[b.pieces[i]].color, h[b.pieces[i]].coordinate>> :
        i \in 1..Len(b.pieces)}

Occupants(h, b) ==
    [sq \in Squares |->
        IF b.grid[sq] = 0 THEN <<"None", "None">> ELSE <<h[b.grid[sq]].type, h[b.grid[sq]].color>>]

OnePiecePerSquare(h, b) ==
    /\ \A i, j \in 1..Len(b.pieces) :
          h[b.pieces[i]].coordinate = h[b.pieces[j]].coordinate => i = j
    /\ \A i \in 1..Len(b.pieces) : b.grid[h[b.pieces[i]].coordinate] = b.pieces[i]
    /\ \A sq \in Squares : b.grid[sq] # 0 => Listed(b, b.grid[sq])

\* w is the board read back; it equals the board it was written from.
EqualBoards(w) ==
    /\ w.ok
    /\ PieceSet(w.heap, w.b) = PieceSet(heap, board)
    /\ Occupants(w.heap, w.b) = Occupants(heap, board)
    /\ OnePiecePerSquare(w.heap, w.b)
    /\ w.b.to_move = board.to_move
    /\ w.b.castle_state = board.castle_state
    /\ w.b.en_passant = board.en_passant
    /\ w.b.half_move_amount = board.half_move_amount
    /\ w.b.move_number = board.move_number

ThroughFen == BoardFromFen(FenFromBoard(heap, board))

ThroughText == BoardFromFen(fen_from_str(fen_to_string(FenFromBoard(heap, board))))

\* C24: for every board reached by one or more commits, captures included,
\* converting the board to Fen and that Fen back to a Board yields an equal
\* board: the same pieces (type, colour, square) with one piece per occupied
\* square, the same side to move, castle rights, en-passant target,
\* half-move clock and move number; the same holds through the text.
C24_FenRoundTripYieldsEqualBoard ==
    (commits > 0 /\ ~panicked)
        => /\ EqualBoards(ThroughFen)
           /\ fen_regex_matches(fen_to_string(FenFromBoard(heap, board)))
           /\ EqualBoards(ThroughText)

\* The entry's origin holds a piece of the side to move that is in the game.
EntryOfSideToMove(m) ==
    /\ m.basic_move # <<>>
    /\ get_at(last.board, m.from) # 0
    /\ last.heap[get_at(last.board, m.from)].color = last.board.to_move
    /\ ~last.heap[get_at(last.board, m.from)].out_of_game

\* C25: after any sequence of commits, every Moves entry returned by
\* get_pseudo_legal_moves has a non-empty move list and a `from` square whose
\* grid cell holds a piece of the side to move, no two entries share a
\* `from`, and no entry belongs to a piece of the other colour or to a
\* captured piece.
C25_EntriesBelongToSideToMove ==
    (last.op = "Board::get_pseudo_legal_moves" /\ ~panicked)
        => /\ \A i \in 1..Len(last.kept) : EntryOfSideToMove(last.kept[i])
           /\ \A i, j \in 1..Len(last.kept) :
                 last.kept[i].from = last.kept[j].from => i = j

QuietMove ==
    /\ last.op = "do_blunder"
    /\ ~panicked
    /\ last.mv.capture = NoCapture
    /\ ~(MoverType = Pawn /\ last.mv.to[2] \in {0, 7})

ListedIds(b) == {b.pieces[i] : i \in 1..Len(b.pieces)}

\* old: the id on the origin before the commit; new: the id on the
\* destination after it.
MovedAlone(old, new) ==
    /\ board.grid[last.start] = 0
    /\ new # 0
    /\ heap[new].type = last.heap[old].type
    /\ heap[new].color = last.heap[old].color
    /\ heap[new].has_moved
    /\ heap[new].coordinate = last.mv.to
    /\ \A sq \in Squares \ {last.start, last.mv.to} :
          /\ board.grid[sq] = last.board.grid[sq]
          /\ board.grid[sq] # 0 => heap[board.grid[sq]] = last.heap[board.grid[sq]]
    /\ ListedIds(board) \ {new} = ListedIds(last.board) \ {old}
    /\ \A id \in ListedIds(board) \ {new} : heap[id] = last.heap[id]
    /\ board.to_move = get_opponent(last.board.to_move)

CapturingMove ==
    /\ last.op = "do_blunder"
    /\ ~panicked
    /\ last.mv.capture # NoCapture
    /\ ~(MoverType = Pawn /\ last.mv.to[2] \in {0, 7})

InFavorOf(team_color, amount) == IF team_color = Light THEN amount ELSE 0 - amount

\* C27: after do_blunder with a move that captures a piece of type T, no
\* promotion involved, evaluate_pieces differs from its value before the move
\* by exactly value(T) in favour of the capturing colour.
C27_CaptureShiftsMaterialByVictim ==
    CapturingMove
        => evaluate_pieces(heap, board) - evaluate_pieces(last.heap, last.board)
              = InFavorOf(MoverColor, get_value(last.mv.capture.piece_type))

\* C28: castle() counts as exactly one move of the castling colour:
\* afterwards the side to move is the opponent of the castling colour, the
\* half-move clock has increased by exactly 1, and move_number has increased
\* by 1 if Dark castled and is unchanged if Light castled.
C28_CastleCountsAsOneMove ==
    (last.op = "castle" /\ ~panicked)
        => /\ board.to_move = get_opponent(TeamOf(last.variant))
           /\ board.half_move_amount = last.board.half_move_amount + 1
           /\ board.move_number
                 = last.board.move_number + (IF TeamOf(last.variant) = Dark THEN 1 ELSE 0)

DoubleStep ==
    /\ last.op = "do_blunder"
    /\ MoverType = Pawn
    /\ last.mv.to[1] = last.start[1]
    /\ (last.mv.to[2] - last.start[2] = 2 \/ last.start[2] - last.mv.to[2] = 2)

StartingRank(team_color) == IF team_color = Light THEN 1 ELSE 6

\* The entry is that of a pawn away from its starting rank.
AdvancedPawnEntry(m) ==
    /\ get_at(last.board, m.from) # 0
    /\ last.heap[get_at(last.board, m.from)].type = Pawn
    /\ m.from[2] # StartingRank(last.heap[get_at(last.board, m.from)].color)

TwoSquareAdvance(m, mv) ==
    /\ mv.to[1] = m.from[1]
    /\ (mv.to[2] - m.from[2] = 2 \/ m.from[2] - mv.to[2] = 2)

\* C30: on every board built from a FEN position or reached from one by
\* commits, a pawn that does not stand on its colour's starting rank (y = 1
\* for Light, y = 6 for Dark) is never offered a two-square advance.
C30_NoDoubleStepOffStartingRank ==
    (/\ last.op \in {"Board::get_pseudo_legal_moves", "get_all_pseudo_legal_moves"}
     /\ ~panicked
     /\ ~FromDefault)
        => \A i \in 1..Len(last.kept) :
              AdvancedPawnEntry(last.kept[i])
                 => \A j \in 1..Len(last.kept[i].basic_move) :
                       ~TwoSquareAdvance(last.kept[i], last.kept[i].basic_move[j])

====
